---- MODULE Spec2Model ----
(***************************************************************************)
(* Photo-sharing backend: the upload authorizer (generate_presign_url),    *)
(* the thumbnail processor (image_resizer) and the two catalog readers     *)
(* (all_thumbnails, user_specific_thumbnails), together with the object    *)
(* store, the metadata table and the uploading client they talk to.        *)
(*                                                                         *)
(* Text is a sequence of tokens.  The tokens ".", " ", "+", "%" and the    *)
(* escapes "%2B", "%25" are single characters or escapes; every other      *)
(* token is a run of characters without any of these.                      *)
(***************************************************************************)
EXTENDS Integers, Sequences, FiniteSets, TLC

VARIABLES
    clock,       \* wall clock, in seconds (datetime.now / datetime.utcnow)
    table,       \* PhotoShareTable: uniqueFileName -> item
    issued,      \* presigned URLs that a 200 response handed to a caller
    originals,   \* the upload bucket: key -> object
    thumbnails,  \* photo-sharing-bucket-thumbnail: key -> object
    events,      \* S3 write notifications (delivered at least once)
    inflight,    \* image_resizer invocations between get_object and put_object
    nPuts,       \* client uploads so far
    nProc,       \* image_resizer invocations so far
    env,         \* os.environ of the deployed functions
    last         \* the last operation: its request, its service calls, its response

vars == <<clock, table, issued, originals, thumbnails, events, inflight,
          nPuts, nProc, env, last>>

(***************************************************************************)
(* Bounds of the model.                                                    *)
(***************************************************************************)
MaxUploads == 2      \* presigned URLs issued
MaxPuts    == 2      \* client uploads
MaxProc    == 2      \* image_resizer invocations
MaxClock   == 1      \* seconds the clock advances
Preloaded  == 20     \* thumbnails already in the bucket in a preloaded start

\* the readings of the clock, as strftime and as isoformat print them
Timestamps == <<"20230815-143022", "20230815-143023", "20230815-143024",
                "20230815-143025">>
IsoTimes   == <<"2023-08-15T14:30:22", "2023-08-15T14:30:23", "2023-08-15T14:30:24",
                "2023-08-15T14:30:25">>

(***************************************************************************)
(* Text helpers.                                                           *)
(***************************************************************************)
RECURSIVE LastIndexOf(_, _, _)
\* the largest i <= n with s[i] = c, or 0
LastIndexOf(s, c, n) ==
    IF n = 0 THEN 0
    ELSE IF s[n] = c THEN n ELSE LastIndexOf(s, c, n - 1)

RECURSIVE LeadingDots(_, _)
\* the number of "." tokens at the start of s, counted from position i
LeadingDots(s, i) ==
    IF i > Len(s) THEN 0
    ELSE IF s[i] = "." THEN 1 + LeadingDots(s, i + 1) ELSE 0

\* os.path.splitext: the extension starts at the last dot, unless that dot
\* is one of the leading dots of the name
SplitExt(name) ==
    LET dot == LastIndexOf(name, ".", Len(name))
    IN  IF dot > LeadingDots(name, 1)
        THEN [base |-> SubSeq(name, 1, dot - 1), ext |-> SubSeq(name, dot, Len(name))]
        ELSE [base |-> name, ext |-> <<>>]

\* str.split('.')[-1]: what follows the last dot, the whole text without one
LastDotPart(key) ==
    SubSeq(key, LastIndexOf(key, ".", Len(key)) + 1, Len(key))

LowerTok(t) ==
    CASE t = "JPG" -> "jpg"
      [] t = "PNG" -> "png"
      [] t = "Notes" -> "notes"
      [] OTHER -> t

\* str.lower
Lower(s) == [i \in 1..Len(s) |-> LowerTok(s[i])]

\* the percent-encoding S3 applies to the object key of a notification
QuoteTok(t) ==
    CASE t = " " -> "+"
      [] t = "+" -> "%2B"
      [] t = "%" -> "%25"
      [] OTHER -> t

QuotePlus(s) == [i \in 1..Len(s) |-> QuoteTok(s[i])]

UnquoteTok(t) ==
    CASE t = "+" -> " "
      [] t = "%2B" -> "+"
      [] t = "%25" -> "%"
      [] OTHER -> t

\* urllib.parse.unquote_plus
UnquotePlus(s) == [i \in 1..Len(s) |-> UnquoteTok(s[i])]

\* ThumbKey made unique per second
ThumbKeyStamped(key) == <<"thumb-", Timestamps[clock + 1], "-">> \o key

\* f"thumb-{key}"
ThumbKey(key) == <<"thumb-">> \o key

(***************************************************************************)
(* Time and randomness.                                                    *)
(***************************************************************************)
\* datetime.now().strftime("%Y%m%d-%H%M%S")
StrfTime(c) == Timestamps[c + 1]
\* datetime.utcnow().isoformat()
IsoFormat(c) == IsoTimes[c + 1]

\* str(uuid.uuid4())[:8]: eight hexadecimal digits.  Nothing keeps two draws
\* apart, so one value lets two draws coincide; draws that differ give what
\* uploads in different seconds give, two different keys
UniqueIds == {"abc12345"}

generate_unique_filename(original_name, c, unique_id) ==
    LET parts == SplitExt(original_name)
    IN  parts.base \o <<"-", StrfTime(c), "-", unique_id>> \o parts.ext

(***************************************************************************)
(* Requests.                                                               *)
(***************************************************************************)
Users == {"alice@example.com", "bob@example.com"}

Photo == <<"my", " ", "pic", "+", "1", ".", "JPG">>
Notes == <<"Notes", ".", "txt">>
FileNames == {Photo, Notes}

JpegType == <<"image/jpeg">>

\* JSON values of a request field: absent, a string, a number
Missing == [t |-> "missing", v |-> <<>>]
Num     == [t |-> "num", v |-> <<>>]
Str(s)  == [t |-> "str", v |-> s]

\* Python truth of a field value that is present
Truthy(x) == x.t = "num" \/ (x.t = "str" /\ x.v # <<>>)

\* event['body']: absent, not JSON, a JSON array, or a JSON object
Body(kind, fileName, fileType) ==
    [kind |-> kind, fileName |-> fileName, fileType |-> fileType]

\* event['requestContext']: how far the path to claims['email'] exists
Ctx(kind, email) == [kind |-> kind, email |-> email]
NoCtx == Ctx("nocontext", "")

AnonymousCtxs == { NoCtx, Ctx("noauthorizer", ""), Ctx("noclaims", ""),
                   Ctx("badclaims", ""), Ctx("noemail", "") }
UserCtxs == { Ctx("email", u) : u \in Users }

ValidBodies == { Body("object", Str(n), Str(JpegType)) : n \in FileNames }

InvalidBodies ==
    { Body("absent", Missing, Missing), Body("badjson", Missing, Missing),
      Body("array", Missing, Missing),
      Body("object", Missing, Str(JpegType)),
      Body("object", Str(Photo), Missing),
      Body("object", Str(<<>>), Str(JpegType)),
      Body("object", Str(Photo), Str(<<>>)) }

OddBodies ==
    { Body("object", Num, Str(JpegType)),
      Body("object", Str(Photo), Num) }

HttpEvent(method, body, ctx) == [httpMethod |-> method, body |-> body, ctx |-> ctx]

AuthEvents ==
    { HttpEvent("POST", b, Ctx("email", "alice@example.com")) : b \in ValidBodies }
    \cup { HttpEvent("POST", Body("object", Str(Photo), Str(JpegType)), c) :
              c \in UserCtxs \cup AnonymousCtxs }
    \cup { HttpEvent("POST", b, Ctx("email", "alice@example.com")) :
              b \in InvalidBodies \cup OddBodies }
    \cup { HttpEvent("OPTIONS", Body("absent", Missing, Missing), NoCtx),
           HttpEvent("OPTIONS", Body("object", Str(Photo), Str(JpegType)),
                     Ctx("email", "alice@example.com")) }

(***************************************************************************)
(* Responses.                                                              *)
(***************************************************************************)
NoHeaders == {}
AuthHeaders == {"Access-Control-Allow-Origin", "Access-Control-Allow-Credentials"}
ReaderHeaders == {"Content-Type", "Access-Control-Allow-Origin",
                  "Access-Control-Allow-Headers", "Access-Control-Allow-Methods"}

\* what an invocation did: the service calls it made, in order, and its response;
\* status 0 stands for no response: an exception left the handler, or the
\* entry is not a handler's return
Outcome(op, event, calls, status, headers, body) ==
    [op |-> op, event |-> event, calls |-> calls, status |-> status,
     headers |-> headers, body |-> body]

\* no invocation is returning
Idle == Outcome("idle", <<>>, <<>>, 0, NoHeaders, <<>>)

ErrorBody(error) == [error |-> error]

\* dict-style update of a key -> value store
Put(store, key, value) ==
    [k \in DOMAIN store \cup {key} |-> IF k = key THEN value ELSE store[k]]

(***************************************************************************)
(* generate_presign_url.lambda_handler                                     *)
(***************************************************************************)
\* BodyAccepted without the test for empty values
BodyAcceptedUnchecked(b) ==
    /\ b.kind = "object"
    /\ b.fileName.t # "missing"
    /\ b.fileType.t # "missing"

\* json.loads(event['body']), body['fileName'], body['fileType'] and the
\* emptiness test all pass
BodyAccepted(b) ==
    /\ b.kind = "object"
    /\ b.fileName.t # "missing"
    /\ b.fileType.t # "missing"
    /\ Truthy(b.fileName)
    /\ Truthy(b.fileType)

\* the best-effort identity of the authorizer
AuthIdentity(ctx) ==
    IF ctx.kind = "email" THEN ctx.email ELSE "unknown"

ProvenanceMetadata(user_email, original_name, unique_filename) ==
    [uploadedBy |-> user_email, originalFileName |-> original_name,
     thumbnailKey |-> ThumbKey(unique_filename), uniqueFileName |-> unique_filename]

\* the Params the presigned URL is signed for
PresignedUrl(bucket_name, unique_filename, file_type, user_email, original_name) ==
    [Bucket |-> bucket_name, Key |-> unique_filename, ContentType |-> file_type,
     Metadata |-> ProvenanceMetadata(user_email, original_name, unique_filename)]

TableItem(bucket_name, unique_filename, file_type, user_email, original_name, upload_date) ==
    [photoMetadata |-> unique_filename, originalFileName |-> original_name,
     thumbnailKey |-> ThumbKey(unique_filename), uniqueFileName |-> unique_filename,
     originalBucket |-> bucket_name, contentType |-> file_type,
     uploadedBy |-> user_email, uploadDate |-> upload_date,
     status |-> "pending", fileSize |-> 0, dimensions |-> "0x0"]

ResponseMetadata(user_email, original_name, unique_filename, file_type, upload_date) ==
    [uploadedBy |-> user_email, originalFileName |-> original_name,
     uniqueFileName |-> unique_filename, thumbnailKey |-> ThumbKey(unique_filename),
     uploadDate |-> upload_date, contentType |-> file_type, status |-> "pending"]

\* PutItem that loses the write
PutItemLost(items, item) == items

\* table.put_item(Item=...): the item replaces whatever its primary key held
PutItem(items, item) == Put(items, item.photoMetadata, item)

AuthorizeUpload(e, unique_id, presignOk, putOk) ==
    LET op == "authorize_upload"
        b == e.body
        quiet == UNCHANGED <<table, issued>>
    IN
    /\ last = Idle
    /\ UNCHANGED <<clock, originals, thumbnails, events, inflight, nPuts, nProc, env>>
    /\ IF "UPLOAD_BUCKET" \notin DOMAIN env
       THEN /\ quiet
            /\ last' = Outcome(op, e, <<>>, 500, NoHeaders,
                                ErrorBody("Upload bucket not configured"))
       ELSE IF ~BodyAccepted(b)
       THEN /\ quiet
            /\ last' = Outcome(op, e, <<>>, 400, NoHeaders,
                                ErrorBody("Invalid request format"))
       ELSE IF b.fileName.t # "str"
       THEN \* os.path.splitext of a non-string, outside every try block
            /\ quiet
            /\ last' = Outcome(op, e, <<>>, 0, NoHeaders, ErrorBody("TypeError"))
       ELSE
         LET bucket_name == env["UPLOAD_BUCKET"]
             original_name == b.fileName.v
             file_type == b.fileType.v
             user_email == AuthIdentity(e.ctx)
             unique_filename == generate_unique_filename(original_name, clock, unique_id)
             upload_date == IsoFormat(clock)
             presigned_url == PresignedUrl(bucket_name, unique_filename, file_type,
                                           user_email, original_name)
             failed == ErrorBody("Failed to generate upload URL")
         IN
         IF ~presignOk \/ b.fileType.t # "str"
         THEN /\ quiet
              /\ last' = Outcome(op, e, <<"generate_presigned_url">>, 500,
                                  AuthHeaders, failed)
         ELSE IF ~putOk
         THEN /\ quiet
              /\ last' = Outcome(op, e, <<"generate_presigned_url", "put_item">>, 500,
                                  AuthHeaders, failed)
         ELSE /\ Cardinality(issued) < MaxUploads
              /\ table' = PutItem(table,
                                   TableItem(bucket_name, unique_filename, file_type,
                                             user_email, original_name, upload_date))
              /\ issued' = issued \cup {presigned_url}
              /\ last' = Outcome(op, e, <<"generate_presigned_url", "put_item">>, 200,
                                  AuthHeaders,
                                  [presignedUrl |-> presigned_url,
                                   originalFileName |-> original_name,
                                   uniqueFileName |-> unique_filename,
                                   thumbnailKey |-> ThumbKey(unique_filename),
                                   metadata |-> ResponseMetadata(user_email, original_name,
                                       unique_filename, file_type, upload_date)])

(***************************************************************************)
(* The client's upload through a presigned URL, and S3's notification.     *)
(***************************************************************************)
Bytes(kind, width, height, mode) ==
    [kind |-> kind, width |-> width, height |-> height, mode |-> mode]

\* what a client may send: nothing, bytes that are no image, an image cut
\* short after its header, or an image
Payloads == { Bytes("empty", 0, 0, ""), Bytes("corrupt", 0, 0, ""),
              Bytes("truncated", 800, 600, "RGB"), Bytes("image", 800, 600, "CMYK") }

StoredObject(body, content_type, metadata) ==
    [Body |-> body, ContentType |-> content_type, Metadata |-> metadata]

\* event['Records'][0]['s3']; hasRecords is FALSE for an event without Records
S3Event(hasRecords, bucket, key) ==
    [hasRecords |-> hasRecords, bucket |-> bucket, key |-> key]

MalformedEvent == S3Event(FALSE, "", <<>>)

\* a PUT with the URL stores exactly what the URL was signed for, and S3
\* notifies the processor with the percent-encoded key
ClientUpload(url, bytes) ==
    /\ last = Idle
    /\ url \in issued
    /\ nPuts < MaxPuts
    /\ nPuts' = nPuts + 1
    /\ originals' = Put(originals, url.Key,
                         StoredObject(bytes, url.ContentType, url.Metadata))
    /\ events' = events \cup {S3Event(TRUE, url.Bucket, QuotePlus(url.Key))}
    /\ last' = Outcome("client_upload", url, <<"put_object">>, 200, NoHeaders, bytes)
    /\ UNCHANGED <<clock, table, issued, thumbnails, inflight, nProc, env>>

(***************************************************************************)
(* image_resizer.lambda_handler                                            *)
(***************************************************************************)
Format(format, content_type) == [format |-> format, content_type |-> content_type]

\* SUPPORTED_FORMATS with plain text let through
SUPPORTED_FORMATS_AndText ==
    (<<"jpg">> :> Format("JPEG", "image/jpeg")) @@
    (<<"jpeg">> :> Format("JPEG", "image/jpeg")) @@
    (<<"png">> :> Format("PNG", "image/png")) @@
    (<<"webp">> :> Format("WEBP", "image/webp")) @@
    (<<"gif">> :> Format("GIF", "image/gif")) @@
    (<<"bmp">> :> Format("BMP", "image/bmp")) @@
    (<<"tiff">> :> Format("TIFF", "image/tiff")) @@
    (<<"txt">> :> Format("TEXT", "text/plain"))

SUPPORTED_FORMATS ==
    (<<"jpg">> :> Format("JPEG", "image/jpeg")) @@
    (<<"jpeg">> :> Format("JPEG", "image/jpeg")) @@
    (<<"png">> :> Format("PNG", "image/png")) @@
    (<<"webp">> :> Format("WEBP", "image/webp")) @@
    (<<"gif">> :> Format("GIF", "image/gif")) @@
    (<<"bmp">> :> Format("BMP", "image/bmp")) @@
    (<<"tiff">> :> Format("TIFF", "image/tiff"))

ThumbnailBound == 150
Quality == 85

Abs(n) == IF n < 0 THEN 0 - n ELSE n
Ceil(p, q) == IF p % q = 0 THEN p \div q ELSE (p \div q) + 1

\* Image.thumbnail((150, 150)): the size after shrinking in proportion
ThumbnailSize(width, height) ==
    LET b == ThumbnailBound IN
    IF b >= width /\ b >= height THEN [width |-> width, height |-> height]
    ELSE IF height >= width
    THEN LET f == (b * width) \div height
             c == Ceil(b * width, height)
             x == IF Abs(b * width - f * height) <= Abs(b * width - c * height)
                  THEN f ELSE c
         IN  [width |-> IF x < 1 THEN 1 ELSE x, height |-> b]
    ELSE LET f == (b * height) \div width
             c == Ceil(b * height, width)
             y == IF f = 0 \/ Abs(width * f - b * height) * c
                                <= Abs(width * c - b * height) * f
                  THEN f ELSE c
         IN  [width |-> b, height |-> IF y < 1 THEN 1 ELSE y]

\* f"{width}x{height}"
DimString(width, height) == <<width, "x", height>>

\* Image.open(...).verify(): the header parses, the pixel data is not read
Verifies(bytes) == bytes.kind \in {"image", "truncated"}

\* convert, thumbnail and save, which read the pixel data
Decodes(bytes) == bytes.kind = "image"

ProcessFailure(ev, calls, object_key, error) ==
    Outcome("process", ev, calls, 500, NoHeaders,
            [error |-> error, object_key |-> object_key])

\* the handler up to the encoded thumbnail: either it fails, or it is about to
\* call put_object
ProcessFetch(ev, getOk) ==
    /\ last = Idle
    /\ nProc < MaxProc
    /\ nProc' = nProc + 1
    /\ UNCHANGED <<clock, table, issued, originals, thumbnails, events, nPuts, env>>
    /\ IF ~ev.hasRecords
       THEN /\ last' = ProcessFailure(ev, <<>>, <<"unknown">>, "KeyError")
            /\ UNCHANGED inflight
       ELSE
         LET source_bucket == ev.bucket
             source_key == UnquotePlus(ev.key)
             file_extension == Lower(LastDotPart(source_key))
         IN
         IF file_extension \notin DOMAIN SUPPORTED_FORMATS
         THEN /\ last' = ProcessFailure(ev, <<>>, source_key, "Unsupported image format")
              /\ UNCHANGED inflight
         ELSE IF ~getOk \/ source_key \notin DOMAIN originals
         THEN /\ last' = ProcessFailure(ev, <<"get_object">>, source_key, "get_object failed")
              /\ UNCHANGED inflight
         ELSE
           LET response == originals[source_key]
               image_data == response.Body
               fmt == SUPPORTED_FORMATS[file_extension]
               user_email == IF "uploadedBy" \in DOMAIN response.Metadata
                             THEN response.Metadata["uploadedBy"] ELSE "unknown"
               mode == IF file_extension \in {<<"jpg">>, <<"jpeg">>}
                          /\ image_data.mode # "RGB"
                       THEN "RGB" ELSE image_data.mode
               size == ThumbnailSize(image_data.width, image_data.height)
           IN
           IF image_data.kind = "empty"
           THEN /\ last' = ProcessFailure(ev, <<"get_object">>, source_key,
                                           "Downloaded image is empty (0 bytes)")
                /\ UNCHANGED inflight
           ELSE IF ~Verifies(image_data)
           THEN /\ last' = ProcessFailure(ev, <<"get_object">>, source_key,
                                           "Invalid image file")
                /\ UNCHANGED inflight
           ELSE IF ~Decodes(image_data)
           THEN /\ last' = ProcessFailure(ev, <<"get_object">>, source_key,
                                           "image file is truncated")
                /\ UNCHANGED inflight
           ELSE
             LET inv == [id |-> nProc + 1,
                         event |-> ev,
                         source_key |-> source_key,
                         target_key |-> ThumbKey(source_key),
                         thumb |-> [source |-> image_data, format |-> fmt.format,
                                    quality |-> Quality, mode |-> mode,
                                    width |-> size.width, height |-> size.height],
                         content_type |-> fmt.content_type,
                         user_email |-> user_email,
                         original_dimensions |->
                             DimString(image_data.width, image_data.height),
                         thumbnail_dimensions |-> DimString(size.width, size.height)]
             IN
             /\ inflight' = inflight \cup {inv}
             /\ last' = Outcome("process_encoded", ev, <<"get_object">>, 0,
                                 NoHeaders, inv)

ThumbnailMetadata(inv, c) ==
    ("original-key" :> inv.source_key) @@
    ("processed-by" :> "thumbnail-generator") @@
    ("uploadedBy" :> inv.user_email) @@
    ("original-dimensions" :> inv.original_dimensions) @@
    ("thumbnail-dimensions" :> inv.thumbnail_dimensions) @@
    ("processing-date" :> IsoFormat(c))

\* the put_object call and the return of the handler
ProcessPut(inv, putOk) ==
    /\ last = Idle
    /\ inv \in inflight
    /\ inflight' = inflight \ {inv}
    /\ UNCHANGED <<clock, table, issued, originals, events, nPuts, nProc, env>>
    /\ IF ~putOk
       THEN /\ last' = ProcessFailure(inv.event, <<"get_object", "put_object">>,
                                       inv.source_key, "put_object failed")
            /\ UNCHANGED thumbnails
       ELSE /\ thumbnails' = Put(thumbnails, inv.target_key,
                                  StoredObject(inv.thumb, inv.content_type,
                                               ThumbnailMetadata(inv, clock)))
            /\ last' = Outcome("process", inv.event, <<"get_object", "put_object">>,
                                200, NoHeaders,
                                [message |-> "Thumbnail created successfully",
                                 thumbnail_key |-> inv.target_key,
                                 original_key |-> inv.source_key,
                                 original_dimensions |-> inv.original_dimensions,
                                 thumbnail_dimensions |-> inv.thumbnail_dimensions])

(***************************************************************************)
(* The catalog readers.                                                    *)
(***************************************************************************)
RECURSIVE SetToSeq(_)
\* the elements of a finite set in the order the service lists them
SetToSeq(S) ==
    IF S = {} THEN <<>>
    ELSE LET x == CHOOSE y \in S : TRUE IN <<x>> \o SetToSeq(S \ {x})

Preflight(op, e) ==
    Outcome(op, e, <<>>, 200, ReaderHeaders, [message |-> "CORS preflight OK"])

MaxKeys == 20

\* ListObjectsV2 without the limit
ListObjectsV2Unlimited(bucket, max_keys) ==
    LET keys == SetToSeq(DOMAIN bucket)
    IN  IF keys = <<>> THEN [KeyCount |-> 0]
        ELSE [KeyCount |-> Len(keys),
              Contents |-> [i \in 1..Len(keys) |-> [Key |-> keys[i]]]]

\* s3.list_objects_v2(Bucket, MaxKeys): at most MaxKeys keys, and no Contents
\* entry at all for an empty bucket
ListObjectsV2(bucket, max_keys) ==
    LET keys == SetToSeq(DOMAIN bucket)
        n == IF Len(keys) < max_keys THEN Len(keys) ELSE max_keys
    IN  IF n = 0 THEN [KeyCount |-> 0]
        ELSE [KeyCount |-> n, Contents |-> [i \in 1..n |-> [Key |-> keys[i]]]]

\* all_thumbnails.lambda_handler
ListRecent(e, listOk) ==
    LET op == "list_recent" IN
    /\ last = Idle
    /\ UNCHANGED <<clock, table, issued, originals, thumbnails, events, inflight,
                   nPuts, nProc, env>>
    /\ IF e.httpMethod = "OPTIONS"
       THEN last' = Preflight(op, e)
       ELSE IF ~listOk
       THEN last' = Outcome(op, e, <<"list_objects_v2">>, 500, ReaderHeaders,
                            ErrorBody("Failed to load thumbnails"))
       ELSE LET response == ListObjectsV2(thumbnails, MaxKeys)
                contents == IF "Contents" \in DOMAIN response
                            THEN response.Contents ELSE <<>>
            IN  last' = Outcome(op, e, <<"list_objects_v2">>, 200, ReaderHeaders,
                                [thumbnails |-> [i \in 1..Len(contents) |->
                                                    [name |-> contents[i].Key]]])

\* ReaderIdentified without the test for an empty email
ReaderIdentifiedLoose(ctx) == ctx.kind = "email"

\* claims = event['requestContext']['authorizer']['claims']; claims.get('email')
\* yields a non-empty email
ReaderIdentified(ctx) == ctx.kind = "email" /\ ctx.email # ""

\* QueryByUploader without the key condition
QueryEveryUploader(items, user_email) ==
    [Items |-> SetToSeq({ items[k] : k \in DOMAIN items })]

\* table.query(IndexName='uploadedByIndex', Key('uploadedBy').eq(user_email))
QueryByUploader(items, user_email) ==
    [Items |-> SetToSeq({ items[k] : k \in { j \in DOMAIN items :
                                              items[j].uploadedBy = user_email } })]

\* user_specific_thumbnails.lambda_handler
ListForIdentity(e, queryOk) ==
    LET op == "list_for_identity" IN
    /\ last = Idle
    /\ UNCHANGED <<clock, table, issued, originals, thumbnails, events, inflight,
                   nPuts, nProc, env>>
    /\ IF e.httpMethod = "OPTIONS"
       THEN last' = Preflight(op, e)
       ELSE IF ~ReaderIdentified(e.ctx)
       THEN last' = Outcome(op, e, <<>>, 401, ReaderHeaders, ErrorBody("Unauthorized"))
       ELSE IF ~queryOk
       THEN last' = Outcome(op, e, <<"query">>, 500, ReaderHeaders,
                            ErrorBody("Failed to fetch thumbnails"))
       ELSE LET items == QueryByUploader(table, e.ctx.email).Items
                found == [i \in 1..Len(items) |->
                             [name |-> items[i].thumbnailKey,
                              originalFileName |-> items[i].originalFileName]]
            IN  last' = Outcome(op, e, <<"query">>, 200, ReaderHeaders,
                                [thumbnails |-> found, count |-> Len(found)])

NoBody == Body("absent", Missing, Missing)

IdentityEvents ==
    { HttpEvent("GET", NoBody, c) :
        c \in AnonymousCtxs \cup UserCtxs \cup {Ctx("email", "")} }
    \cup { HttpEvent("OPTIONS", NoBody, c) : c \in {NoCtx, Ctx("email", "alice@example.com")} }

RecentEvents ==
    { HttpEvent("GET", NoBody, NoCtx), HttpEvent("OPTIONS", NoBody, NoCtx) }

(***************************************************************************)
(* The system.                                                             *)
(***************************************************************************)
Tick ==
    /\ last = Idle
    /\ clock < MaxClock
    /\ clock' = clock + 1
    /\ UNCHANGED <<table, issued, originals, thumbnails, events, inflight,
                   nPuts, nProc, env, last>>

\* the invocation returns: its response goes to the caller and the next
\* invocation can be observed
Return ==
    /\ last # Idle
    /\ last' = Idle
    /\ UNCHANGED <<clock, table, issued, originals, thumbnails, events, inflight,
                   nPuts, nProc, env>>

EmptyStore == [k \in {} |-> {}]

UploadBucket == "photo-sharing-bucket-upload"
Configured == [v \in {"UPLOAD_BUCKET"} |-> UploadBucket]
Unconfigured == [v \in {} |-> ""]

PreloadNames == <<"01", "02", "03", "04", "05", "06", "07", "08", "09", "10", "11",
                  "12", "13", "14", "15", "16", "17", "18", "19", "20", "21", "22",
                  "23", "24">>

\* thumbnails written before the first step of a behaviour
PreloadedBucket ==
    [k \in { ThumbKey(<<"old", "-", PreloadNames[i], ".", "jpg">>) : i \in 1..Preloaded } |->
        StoredObject([source |-> Bytes("image", 150, 150, "RGB"), format |-> "JPEG",
                      quality |-> Quality, mode |-> "RGB", width |-> 150, height |-> 150],
                     "image/jpeg",
                     ("original-key" :> SubSeq(k, 2, Len(k))) @@
                     ("processed-by" :> "thumbnail-generator") @@
                     ("uploadedBy" :> "unknown") @@
                     ("original-dimensions" :> DimString(150, 150)) @@
                     ("thumbnail-dimensions" :> DimString(150, 150)) @@
                     ("processing-date" :> IsoFormat(0)))]

Start(environment, bucket) ==
    /\ clock = 0
    /\ table = EmptyStore
    /\ issued = {}
    /\ originals = EmptyStore
    /\ thumbnails = bucket
    /\ events = {}
    /\ inflight = {}
    /\ nPuts = 0
    /\ nProc = 0
    /\ env = environment
    /\ last = Idle

Init == \E environment \in {Configured, Unconfigured} : Start(environment, EmptyStore)

Next ==
    \/ \E e \in AuthEvents, unique_id \in UniqueIds, presignOk \in BOOLEAN, putOk \in BOOLEAN :
          AuthorizeUpload(e, unique_id, presignOk, putOk)
    \/ \E url \in issued, bytes \in Payloads : ClientUpload(url, bytes)
    \/ \E ev \in events \cup {MalformedEvent}, getOk \in BOOLEAN : ProcessFetch(ev, getOk)
    \/ \E inv \in inflight, putOk \in BOOLEAN : ProcessPut(inv, putOk)
    \/ \E e \in RecentEvents, listOk \in BOOLEAN : ListRecent(e, listOk)
    \/ \E e \in IdentityEvents, queryOk \in BOOLEAN : ListForIdentity(e, queryOk)
    \/ Tick
    \/ Return

Spec == Init /\ [][Next]_vars

\* the same system started with or without thumbnails of earlier uploads
InitPreloaded ==
    \E environment \in {Configured, Unconfigured}, bucket \in {EmptyStore, PreloadedBucket} :
        Start(environment, bucket)

SpecPreloaded == InitPreloaded /\ [][Next]_vars

(***************************************************************************)
(* Properties.                                                             *)
(***************************************************************************)
Stores == <<table, issued, originals, thumbnails>>

\* the request body has no fileName or no fileType, or an empty one
LacksRequiredField(b) ==
    \/ b.kind # "object"
    \/ b.fileName \in {Missing, Str(<<>>)}
    \/ b.fileType \in {Missing, Str(<<>>)}

\* C1 as stated: every authorize_upload request whose body lacks fileName or
\* fileType, or has an empty one, is answered 400 and has no side effect: no
\* service call, no change of the table, the issued URLs or the buckets.
C1_Rejected400 ==
    [][ (last'.op = "authorize_upload" /\ LacksRequiredField(last'.event.body))
          => /\ last'.status = 400
             /\ last'.calls = <<>>
             /\ Stores' = Stores ]_vars

\* C1 amended: such a request is answered 400 when UPLOAD_BUCKET is configured
\* and with the 500 configuration error when it is not, and in both cases it
\* has no side effect.
C1_RejectedNoSideEffect ==
    [][ (last'.op = "authorize_upload" /\ LacksRequiredField(last'.event.body))
          => /\ last'.status = IF "UPLOAD_BUCKET" \in DOMAIN env THEN 400 ELSE 500
             /\ "presignedUrl" \notin DOMAIN last'.body
             /\ last'.calls = <<>>
             /\ Stores' = Stores ]_vars

C1_Witness ==
    /\ last.op = "authorize_upload"
    /\ last.event.body = Body("object", Str(Photo), Str(<<>>))
    /\ last.status = 400

\* C2: every presigned URL returned to a caller has a record under its key; a
\* 200 response was preceded by both the signing and the put_item and carries
\* a URL that has its record; any other response carries no presignedUrl, and
\* it is a 500 once the signing was attempted; and every object in the upload
\* bucket has its record.
C2_CredentialHasRecord ==
    /\ \A url \in issued :
          url.Key \in DOMAIN table /\ table[url.Key].uniqueFileName = url.Key
    /\ \A k \in DOMAIN originals : k \in DOMAIN table
    /\ last.op = "authorize_upload" =>
          IF last.status = 200
          THEN /\ last.calls = <<"generate_presigned_url", "put_item">>
               /\ last.body.presignedUrl \in issued
               /\ last.body.presignedUrl.Key = last.body.uniqueFileName
               /\ last.body.uniqueFileName \in DOMAIN table
          ELSE /\ "presignedUrl" \notin DOMAIN last.body
               /\ last.calls # <<>> => last.status = 500

C2_Witness ==
    \E url \in issued : url.Key \in DOMAIN originals /\ url.Key \in DOMAIN table

\* C3 as stated: a record is pending when authorize_upload creates it, and once
\* the processor has finished with the record's object the status is processed
\* after a success and failed after a failure.
C3_StatusLifecycle ==
    /\ (last.op = "authorize_upload" /\ last.status = 200)
          => table[last.body.uniqueFileName].status = "pending"
    /\ (last.op = "process" /\ last.event.hasRecords)
          => \A k \in DOMAIN table :
                QuotePlus(k) = last.event.key
                  => table[k].status = IF last.status = 200 THEN "processed" ELSE "failed"

\* the extensions of the whitelist
SupportedExtensions ==
    {<<"jpg">>, <<"jpeg">>, <<"png">>, <<"webp">>, <<"gif">>, <<"bmp">>, <<"tiff">>}

\* C4: an invocation for a stored object whose key has an extension outside the
\* whitelist, or whose bytes are empty or fail the verify pass, ends in a failure
\* result that names that key, calls no put_object and leaves the thumbnails
\* bucket as it was; and put_object is only ever reached with a thumbnail
\* encoded from bytes that decode, as the last call of a successful invocation.
C4_ValidationFailureWritesNothing ==
    [][ /\ \A k \in DOMAIN originals :
             ( /\ last'.op \in {"process", "process_encoded"}
               /\ last'.event.hasRecords
               /\ QuotePlus(k) = last'.event.key
               /\ \/ Lower(LastDotPart(k)) \notin SupportedExtensions
                  \/ nProc' = nProc + 1 /\ originals[k].Body.kind \in {"empty", "corrupt"} )
             => /\ last'.op = "process"
                /\ last'.status = 500
                /\ last'.body.object_key = k
                /\ \A i \in 1..Len(last'.calls) : last'.calls[i] # "put_object"
                /\ thumbnails' = thumbnails
                /\ inflight' = inflight
        /\ \A inv \in inflight' : inv.thumb.source.kind = "image"
        /\ thumbnails' # thumbnails
             => /\ last'.op = "process"
                /\ last'.status = 200
                /\ last'.calls = <<"get_object", "put_object">>
                /\ last'.body.thumbnail_key \in DOMAIN thumbnails'
                /\ thumbnails'[last'.body.thumbnail_key].Body.source.kind = "image" ]_vars

C4_Witness ==
    /\ last.op = "process"
    /\ last.status = 500
    /\ last.calls = <<"get_object">>
    /\ last.body.object_key \in DOMAIN originals
    /\ originals[last.body.object_key].Body.kind = "empty"
    /\ last.body.object_key = <<"my", " ", "pic", "+", "1", "-", "20230815-143022", "-",
                                "abc12345", ".", "JPG">>

\* a stored object without the processing-date of its metadata
SansDate(obj) ==
    [Body |-> obj.Body, ContentType |-> obj.ContentType,
     Metadata |-> [f \in DOMAIN obj.Metadata \ {"processing-date"} |-> obj.Metadata[f]]]

\* C5 as stated: when a successful invocation finds a thumbnail of the same
\* source key made from the same source object (the same bytes with the same
\* uploadedBy attached), that thumbnail is at
\* 'thumb-' + key, the bucket holds the same keys after the invocation, and the
\* object there is the same: body, content type and metadata.
C5_Idempotent ==
    [][ (last'.op = "process" /\ last'.status = 200)
          => LET src == last'.body.original_key
                 t == <<"thumb-">> \o src
             IN  /\ t \in DOMAIN thumbnails'
                 /\ \A t0 \in DOMAIN thumbnails :
                      ( /\ thumbnails[t0].Metadata["original-key"] = src
                        /\ thumbnails[t0].Body.source = thumbnails'[t].Body.source
                        /\ thumbnails[t0].Metadata["uploadedBy"]
                             = thumbnails'[t].Metadata["uploadedBy"] )
                      => /\ t0 = t
                         /\ DOMAIN thumbnails' = DOMAIN thumbnails
                         /\ thumbnails'[t] = thumbnails[t] ]_vars

\* C5 amended: the same, with the object equal in body, content type and
\* every metadata entry except processing-date.
C5_IdempotentButDate ==
    [][ (last'.op = "process" /\ last'.status = 200)
          => LET src == last'.body.original_key
                 t == <<"thumb-">> \o src
             IN  /\ t \in DOMAIN thumbnails'
                 /\ \A t0 \in DOMAIN thumbnails :
                      ( /\ thumbnails[t0].Metadata["original-key"] = src
                        /\ thumbnails[t0].Body.source = thumbnails'[t].Body.source
                        /\ thumbnails[t0].Metadata["uploadedBy"]
                             = thumbnails'[t].Metadata["uploadedBy"] )
                      => /\ t0 = t
                         /\ DOMAIN thumbnails' = DOMAIN thumbnails
                         /\ SansDate(thumbnails'[t]) = SansDate(thumbnails[t]) ]_vars

\* the first invocation has written and a duplicate of it is about to
C5_Witness ==
    /\ last.op = "process"
    /\ last.status = 200
    /\ \E inv \in inflight :
          /\ inv.event = last.event
          /\ inv.target_key \in DOMAIN thumbnails
          /\ thumbnails[inv.target_key].Body.source = inv.thumb.source

\* C6 as stated: every thumbnail made from an authorized upload is at
\* 'thumb-' + source key, which is the thumbnailKey of the upload's record and of
\* the URLs issued for that key, and its uploadedBy is the uploadedBy of the
\* record.
C6_StagesAgree ==
    \A t \in DOMAIN thumbnails :
        LET src == thumbnails[t].Metadata["original-key"]
        IN  src \in DOMAIN table
              => /\ t = <<"thumb-">> \o src
                 /\ t = table[src].thumbnailKey
                 /\ \A url \in issued : url.Key = src => url.Metadata.thumbnailKey = t
                 /\ thumbnails[t].Metadata["uploadedBy"] = table[src].uploadedBy

\* the entries of a listing response, none when it has no list
Entries(r) == IF "thumbnails" \in DOMAIN r.body THEN r.body.thumbnails ELSE <<>>

\* the caller of a list_for_identity request that is no preflight has a
\* non-empty email in its claims
IdentifiedRequest ==
    /\ last.op = "list_for_identity"
    /\ last.event.httpMethod # "OPTIONS"
    /\ last.event.ctx.kind = "email"
    /\ last.event.ctx.email # ""

\* the response lists exactly the caller's records, one entry each, with count
OwnRecordsListed ==
    LET own == { k \in DOMAIN table : table[k].uploadedBy = last.event.ctx.email }
        entry(k) == [name |-> table[k].thumbnailKey,
                     originalFileName |-> table[k].originalFileName]
        th == last.body.thumbnails
    IN  /\ last.status = 200
        /\ Len(th) = Cardinality(own)
        /\ \A k \in own : \E i \in 1..Len(th) : th[i] = entry(k)
        /\ \A i \in 1..Len(th) : \E k \in own : th[i] = entry(k)
        /\ last.body.count = Len(th)
        /\ own = {} => (th = <<>> /\ last.body.count = 0)

\* C7 as stated: list_for_identity with a valid identity answers 200 with
\* exactly the caller's records, one {name, originalFileName} entry each and
\* none of another identity, and count is the number of entries.
C7_OwnRecords == IdentifiedRequest => OwnRecordsListed

\* C7 amended: it does so unless the table query fails; then the answer is a
\* 500 that carries no thumbnails.
C7_OwnRecordsUnlessQueryFails ==
    IdentifiedRequest
      => \/ OwnRecordsListed
         \/ /\ last.status = 500
            /\ last.calls = <<"query">>
            /\ "thumbnails" \notin DOMAIN last.body

C7_Witness ==
    /\ IdentifiedRequest
    /\ last.status = 200
    /\ Len(last.body.thumbnails) = 1
    /\ \E k \in DOMAIN table : table[k].uploadedBy \notin {last.event.ctx.email, "unknown"}

\* C8: a list_for_identity request that is no preflight and has no non-empty
\* email in its claims is answered 401 without thumbnails and without a query.
C8_Unauthorized ==
    ( /\ last.op = "list_for_identity"
      /\ last.event.httpMethod # "OPTIONS"
      /\ (last.event.ctx.kind # "email" \/ last.event.ctx.email = "") )
      => /\ last.status = 401
         /\ last.calls = <<>>
         /\ "thumbnails" \notin DOMAIN last.body
         /\ "count" \notin DOMAIN last.body

C8_Witness ==
    /\ last.op = "list_for_identity"
    /\ last.event.ctx = Ctx("email", "")
    /\ last.status = 401
    /\ DOMAIN table # {}

\* every entry of the listing is {name: key} for a key of the thumbnails bucket
EntriesAreKeys ==
    \A i \in 1..Len(Entries(last)) :
        \E k \in DOMAIN thumbnails : Entries(last)[i] = [name |-> k]

\* C9 as stated: list_recent returns at most 20 entries, each {name: key} for a
\* key in the thumbnails bucket, and for an empty bucket it answers 200 with an
\* empty list, never an error.
C9_AtMostLimit ==
    (last.op = "list_recent" /\ last.event.httpMethod # "OPTIONS")
      => /\ Len(Entries(last)) <= 20
         /\ EntriesAreKeys
         /\ DOMAIN thumbnails = {}
              => (last.status = 200 /\ last.body.thumbnails = <<>>)

\* C9 amended: the same, except that a failure of the listing call itself is
\* answered 500, for an empty bucket as for any other.
C9_AtMostLimitUnlessListingFails ==
    (last.op = "list_recent" /\ last.event.httpMethod # "OPTIONS")
      => /\ Len(Entries(last)) <= 20
         /\ EntriesAreKeys
         /\ last.status \in {200, 500}
         /\ last.status = 200 => "thumbnails" \in DOMAIN last.body
         /\ last.status = 500
              => (last.calls = <<"list_objects_v2">> /\ "thumbnails" \notin DOMAIN last.body)
         /\ (DOMAIN thumbnails = {} /\ last.status = 200)
              => last.body.thumbnails = <<>>

C9_Witness ==
    /\ last.op = "list_recent"
    /\ last.status = 200
    /\ Len(Entries(last)) = 20
    /\ Cardinality(DOMAIN thumbnails) > 20

\* C10 as stated: each of the three request handlers answers an OPTIONS request
\* with 200 and does nothing else for it: no service call, no upload URL.
C10_PreflightOnly ==
    ( /\ last.op \in {"authorize_upload", "list_recent", "list_for_identity"}
      /\ last.event.httpMethod = "OPTIONS" )
      => /\ last.status = 200
         /\ last.calls = <<>>
         /\ "presignedUrl" \notin DOMAIN last.body

\* C11 as stated: every invocation of a handler ends in a response, never in an
\* exception that leaves the handler, and every failure response of the three
\* request/response handlers (400, 401, 500) has a status code, a body and the
\* headers Content-Type and Access-Control-Allow-Origin.
C11_FailuresEnveloped ==
    /\ last.op \in {"authorize_upload", "list_recent", "list_for_identity", "process"}
         => last.status # 0
    /\ ( /\ last.op \in {"authorize_upload", "list_recent", "list_for_identity"}
         /\ last.status \in {400, 401, 500} )
         => /\ "error" \in DOMAIN last.body
            /\ {"Content-Type", "Access-Control-Allow-Origin"} \subseteq last.headers

\* the keys of a store that a step wrote: new, or holding another value
Written(old, new) ==
    { k \in DOMAIN new : k \notin DOMAIN old \/ new[k] # old[k] }

\* the step deletes nothing from the store
Keeps(old, new) == DOMAIN old \subseteq DOMAIN new

\* C12 as stated: only a successful authorize_upload changes the table, and it
\* adds exactly one record to it, leaving the others as they were; a process
\* invocation leaves the table and the originals bucket alone and writes at
\* most one thumbnail; the two readers change no store; no step of any operation
\* removes a record or an object.
C12_FrameEffects ==
    [][ /\ table' # table
          => (last'.op = "authorize_upload" /\ last'.status = 200)
        /\ (last'.op = "authorize_upload" /\ last'.status = 200)
          => /\ Cardinality(DOMAIN table') = Cardinality(DOMAIN table) + 1
             /\ \A k \in DOMAIN table : table'[k] = table[k]
             /\ UNCHANGED <<originals, thumbnails>>
        /\ last'.op \in {"process", "process_encoded"}
          => /\ UNCHANGED <<table, originals>>
             /\ Cardinality(Written(thumbnails, thumbnails')) <= 1
        /\ last'.op \in {"list_recent", "list_for_identity"}
          => UNCHANGED <<table, originals, thumbnails>>
        /\ Keeps(table, table')
        /\ Keeps(originals, originals')
        /\ Keeps(thumbnails, thumbnails')
      ]_vars

====
